---------------------------- MODULE Spec2Model ----------------------------
(***************************************************************************)
(* Model of the match controller of llm-chess:                             *)
(*   src/src/controller/game_controller.py  (GameController)               *)
(*   src/src/chess_engine/game.py           (ChessGame)                    *)
(*   src/src/llm/openai_llm.py, anthropic_llm.py, base.py (the proposers)  *)
(*                                                                         *)
(* The rules engine (python-chess) is a third-party library.  Its board is *)
(* abstracted to what the controller reads of it: the side to move, the    *)
(* number of plies played, whether the position is over and how, the set   *)
(* of legal moves, and the two notations (SAN, UCI) of a move.             *)
(*                                                                         *)
(* Times are whole units; an average is kept as an exact fraction.         *)
(***************************************************************************)
EXTENDS Integers, Sequences, FiniteSets, TLC

(***************************************************************************)
(* Bounds of the model                                                     *)
(***************************************************************************)
\* the abstract engine declares a draw by rule after this many plies
MaxPly == 3
\* an API call takes 0..MaxAttemptTime units of wall-clock time
MaxAttemptTime == 1
\* the configured time_control of a timed match (0 stands for None: untimed)
MaxTimeControl == 2
\* largest configured max_moves (0 stands for None: no limit)
MaxMovesCfg == 2

(***************************************************************************)
(* Program constants                                                       *)
(***************************************************************************)
\* BaseLLM.__init__: self.retries = 3
Retries == 3

Colors == {"white", "black"}

\* a key that is not present in the game_stats dict
Absent == "<absent>"

Other(c) == IF c = "white" THEN "black" ELSE "white"

(***************************************************************************)
(* The rules engine, abstracted                                            *)
(***************************************************************************)
\* chess.Move values the abstract engine knows; "null" is chess.Move.null()
RealMoves == {"quiet", "mate", "stale"}

\* Move.uci()
Uci(m) ==
    CASE m = "quiet" -> "g1f3"
      [] m = "mate"  -> "d8h4"
      [] m = "stale" -> "h6h7"
      [] OTHER       -> "0000"

\* board.san(move): the canonical short algebraic notation
San(m) ==
    CASE m = "quiet" -> "Nf3"
      [] m = "mate"  -> "Qh4#"
      [] OTHER       -> "Kh7"

\* chess.Board(): white to move, nothing played
InitialBoard == [turn |-> TRUE, ply |-> 0, outcome |-> "ongoing"]

\* board.is_game_over()
IsGameOver(b) == b.outcome # "ongoing"

\* board.is_checkmate()
IsCheckmate(b) == b.outcome = "checkmate"

\* board.legal_moves: none in a finished position; in the initial position
\* only the quiet move, later also the mating and the stalemating move
LegalMoves(b) ==
    IF IsGameOver(b) THEN {}
    ELSE IF b.ply = 0 THEN {"quiet"}
    ELSE RealMoves

\* board.push(move)
Push(b, m) ==
    [turn    |-> ~b.turn,
     ply     |-> b.ply + 1,
     outcome |-> CASE m = "mate"  -> "checkmate"
                   [] m = "stale" -> "draw"
                   [] OTHER       -> IF b.ply + 1 >= MaxPly THEN "draw"
                                     ELSE "ongoing"]

\* [board.san(move) for move in board.legal_moves]
LegalSan(b) == {San(m) : m \in LegalMoves(b)}

\* board.parse_san(s): a legal move in short notation or fully specified
\* (from-square and to-square, which is how the UCI string reads), the null
\* move "--", or a ValueError (ok = FALSE)
ParseSan(b, s) ==
    IF \E m \in LegalMoves(b) : s = San(m) \/ s = Uci(m)
    THEN [ok |-> TRUE,
          move |-> CHOOSE m \in LegalMoves(b) : s = San(m) \/ s = Uci(m)]
    ELSE IF s = "--" THEN [ok |-> TRUE, move |-> "null"]
    ELSE [ok |-> FALSE, move |-> "null"]

\* chess.Move.from_uci(u)
MoveFromUci(u) ==
    IF \E m \in RealMoves : Uci(m) = u
    THEN CHOOSE m \in RealMoves : Uci(m) = u
    ELSE "null"

(***************************************************************************)
(* ChessGame                                                               *)
(***************************************************************************)
\* ChessGame.current_player (a property)
CurrentPlayer(b) == IF b.turn THEN "player1" ELSE "player2"

\* the result crediting the side that is mated
ResultForMated(b) ==
    IF ~IsGameOver(b) THEN "*"
    ELSE IF IsCheckmate(b) THEN (IF ~b.turn THEN "0-1" ELSE "1-0")
    ELSE "1/2-1/2"

\* ChessGame.result (a property)
Result(b) ==
    IF ~IsGameOver(b) THEN "*"
    ELSE IF IsCheckmate(b) THEN (IF ~b.turn THEN "1-0" ELSE "0-1")
    ELSE "1/2-1/2"

\* make_move with the push moved in front of the legality test
MakeMovePushFirst(b, h, uci, san, expl) ==
    LET m == MoveFromUci(uci) IN
    IF m \in LegalMoves(b)
    THEN [ok |-> TRUE, board |-> Push(b, m),
          move_history |-> Append(h, <<uci, san, expl>>)]
    ELSE [ok |-> FALSE, board |-> Push(b, m), move_history |-> h]

\* make_move with the record appended in front of the legality test
MakeMoveAppendFirst(b, h, uci, san, expl) ==
    LET m == MoveFromUci(uci) IN
    IF m \in LegalMoves(b)
    THEN [ok |-> TRUE, board |-> Push(b, m),
          move_history |-> Append(h, <<uci, san, expl>>)]
    ELSE [ok |-> FALSE, board |-> b,
          move_history |-> Append(h, <<uci, san, expl>>)]

\* make_move recording a legal move without pushing it
MakeMoveRecordOnly(b, h, uci, san, expl) ==
    LET m == MoveFromUci(uci) IN
    IF m \in LegalMoves(b)
    THEN [ok |-> TRUE, board |-> b,
          move_history |-> Append(h, <<uci, san, expl>>)]
    ELSE [ok |-> FALSE, board |-> b, move_history |-> h]

\* make_move putting the record in front of the earlier ones
MakeMovePrepends(b, h, uci, san, expl) ==
    LET m == MoveFromUci(uci) IN
    IF m \in LegalMoves(b)
    THEN [ok |-> TRUE, board |-> Push(b, m),
          move_history |-> <<<<uci, san, expl>>>> \o h]
    ELSE [ok |-> FALSE, board |-> b, move_history |-> h]

\* make_move without the legality test
MakeMoveUnchecked(b, h, uci, san, expl) ==
    LET m == MoveFromUci(uci) IN
    IF m # "null"
    THEN [ok |-> TRUE, board |-> Push(b, m),
          move_history |-> Append(h, <<uci, san, expl>>)]
    ELSE [ok |-> FALSE, board |-> b, move_history |-> h]

\* make_move pushing a legal move without recording it
MakeMoveWithoutRecord(b, h, uci, san, expl) ==
    LET m == MoveFromUci(uci) IN
    IF m \in LegalMoves(b)
    THEN [ok |-> TRUE, board |-> Push(b, m), move_history |-> h]
    ELSE [ok |-> FALSE, board |-> b, move_history |-> h]

\* ChessGame.make_move on (board, move_history): the returned flag and the
\* game afterwards
MakeMove(b, h, uci, san, expl) ==
    LET m == MoveFromUci(uci) IN
    IF m \in LegalMoves(b)
    THEN [ok |-> TRUE, board |-> Push(b, m),
          move_history |-> Append(h, <<uci, san, expl>>)]
    ELSE [ok |-> FALSE, board |-> b, move_history |-> h]

\* ChessGame.export_pgn: the Result header and the move list
ExportPgn(b, h) ==
    [result |-> Result(b),
     moves  |-> [i \in 1..Len(h) |-> San(MoveFromUci(h[i][1]))]]


(***************************************************************************)
(* Statistics (GameController._update_stats) and rendering                 *)
(***************************************************************************)
RECURSIVE Sum(_)
Sum(s) == IF s = <<>> THEN 0 ELSE Head(s) + Sum(Tail(s))

\* sum(xs) / len(xs) as an exact fraction
Quotient(n, d) == [num |-> n, den |-> d]

\* the stats a new controller starts with (GameController.__init__)
InitialStats ==
    [total_moves           |-> 0,
     average_time_per_move |-> [c \in Colors |-> Quotient(0, 1)],
     longest_think_time    |-> [c \in Colors |-> 0],
     termination           |-> Absent,
     result                |-> Absent]

\* _update_stats dividing by the moves of both sides
UpdateStatsOverAllMoves(stats, times, tt, c) ==
    LET times2 == [times EXCEPT ![c] = Append(@, tt)] IN
    [move_times |-> times2,
     game_stats |->
        [stats EXCEPT
           !.total_moves = @ + 1,
           !.average_time_per_move[c] = Quotient(Sum(times2[c]), stats.total_moves + 1),
           !.longest_think_time[c] = IF tt > @ THEN tt ELSE @]]

\* _update_stats counting the move without keeping its thinking time
UpdateStatsWithoutSample(stats, times, tt, c) ==
    [move_times |-> times,
     game_stats |->
        [stats EXCEPT
           !.total_moves = @ + 1,
           !.average_time_per_move[c] = Quotient(Sum(Append(times[c], tt)),
                                                 Len(times[c]) + 1),
           !.longest_think_time[c] = IF tt > @ THEN tt ELSE @]]

\* GameController._update_stats(move, color) on (game_stats, move_times)
UpdateStats(stats, times, tt, c) ==
    LET times2 == [times EXCEPT ![c] = Append(@, tt)] IN
    [move_times |-> times2,
     game_stats |->
        [stats EXCEPT
           !.total_moves = @ + 1,
           !.average_time_per_move[c] = Quotient(Sum(times2[c]), Len(times2[c])),
           !.longest_think_time[c] = IF tt > @ THEN tt ELSE @]]

\* f"{x:.2f}" of a non-negative fraction, in hundredths
Format2f(q) == (200 * q.num + q.den) \div (2 * q.den)

\* GameController.export_game: reading game_stats["result"] raises KeyError
\* when the key was never set; otherwise the PGN and the statistics block
ExportGame(stats, b, h) ==
    [raised |-> stats.result = Absent,
     text   |->
        [pgn         |-> ExportPgn(b, h),
         total_moves |-> stats.total_moves,
         average     |-> [c \in Colors |-> Format2f(stats.average_time_per_move[c])],
         longest     |-> [c \in Colors |-> 100 * stats.longest_think_time[c]],
         termination |-> stats.termination,
         result      |-> IF stats.result # "*" THEN stats.result ELSE Absent]]

\* play_game, the except clause: the termination becomes "Error: ..." and
\* export_game is called again, outside any try
HandleException(stats, msg, b, h) ==
    LET stats2 == [stats EXCEPT !.termination = msg]
        again  == ExportGame(stats2, b, h)
    IN  [game_stats |-> stats2,
         outcome    |-> IF again.raised THEN "raised" ELSE "returned",
         pgn        |-> IF again.raised THEN <<>> ELSE <<again.text>>]

\* play_game, "return self.export_game()" inside the try
ReturnExport(stats, b, h) ==
    LET first == ExportGame(stats, b, h) IN
    IF first.raised
    THEN HandleException(stats, "Error: 'result'", b, h)
    ELSE [game_stats |-> stats, outcome |-> "returned", pgn |-> <<first.text>>]

\* the forfeit crediting the side that failed to move
ForfeitStatsMoverWins(stats, c) ==
    [stats EXCEPT
       !.result      = IF c = "white" THEN "1-0" ELSE "0-1",
       !.termination = IF c = "white" THEN "Invalid move by white"
                       ELSE "Invalid move by black"]

\* play_game, "if not move": the side to move loses
ForfeitStats(stats, c) ==
    [stats EXCEPT
       !.result      = IF c = "white" THEN "0-1" ELSE "1-0",
       !.termination = IF c = "white" THEN "Invalid move by white"
                       ELSE "Invalid move by black"]

\* export_game filling in a missing result from the board
ExportStoresResult(s) ==
    [s EXCEPT !.game_stats.result = IF @ = Absent THEN Result(s.board) ELSE @]

\* what export_game and export_pgn leave of the controller and the game
\* s = [game_stats, board, move_history]: they assign to locals only, and
\* export_pgn replays the moves on a chess.pgn.Game of its own
ExportLeaves(s) == s

\* _get_next_move, on an exhausted clock
LostOnTime(c) == IF c = "white" THEN "white lost on time" ELSE "black lost on time"

(***************************************************************************)
(* The proposer (OpenAILLM / AnthropicLLM .get_next_move)                  *)
(***************************************************************************)
\* what the "move" field of a well-formed answer can hold: the short or the
\* fully specified notation of a move, the null move, or nonsense
MoveStrings == {San(m) : m \in RealMoves} \cup {Uci(m) : m \in RealMoves}
               \cup {"--", "zz"}

\* one API call ends in a transport failure (the client raises), a malformed
\* answer (json.JSONDecodeError or KeyError), another failure while the answer
\* is read ("internal": a TypeError of json.loads(None) or float(None), an
\* IndexError of an empty content list) or a well-formed answer
Failures == {"transport", "malformed", "internal"}

Responses == Failures \cup MoveStrings

\* get_next_move treating a malformed answer as one more failed attempt
RaisesUnlessMalformed(r) == r \in Failures \ {"malformed"}

\* get_next_move treating a transport failure as one more failed attempt
RaisesUnlessTransport(r) == r \in Failures \ {"transport"}

\* the except clauses of get_next_move: the inner one turns JSONDecodeError
\* and KeyError into ValueError, the outer one turns every Exception,
\* that ValueError included, into the Exception the call ends with
Raises(r) == r \in Failures

Durations == 0..MaxAttemptTime

\* the thinking time measured from the start of the API call only
ElapsedOfAttempt(e, d) == d

\* "thinking_time = time.time() - start_time" after an API call that took d,
\* start_time being read once before the loop, e before that call
Elapsed(e, d) == e + d

\* the retry test giving up one attempt early
ShouldRetryOneLess(san, legal, i) == san \notin legal /\ i < Retries - 1

\* "if result["move"] not in legal_moves and i < self.retries: continue"
ShouldRetry(san, legal, i) == san \notin legal /\ i < Retries

(***************************************************************************)
(* The time control (GameController._get_next_move)                        *)
(***************************************************************************)
\* self.time_remaining = {...} if time_control else None; None is the
\* function with no entries
NoClocks == [c \in {} |-> 0]

\* clocks created whatever the time control is
InitialClocksAlways(tc) == [c \in Colors |-> tc]

InitialClocks(tc) == IF tc # 0 THEN [c \in Colors |-> tc] ELSE NoClocks

\* "if self.time_remaining:"
Timed(clocks) == DOMAIN clocks # {}

\* the charge with the sign wrong
ChargeAdds(clock, tt) == clock + tt

\* self.time_remaining[color] -= move_result.thinking_time
Charge(clock, tt) == clock - tt

\* the charge taken from both clocks
ChargeBothSides(clocks, c, tt) == [k \in DOMAIN clocks |-> Charge(clocks[k], tt)]

\* line 98 on the dict: only the entry of the side to move is written
ChargeSide(clocks, c, tt) == [clocks EXCEPT ![c] = Charge(@, tt)]

\* the exhaustion test missing the clock at exactly zero
ExhaustedBelowZero(clock) == clock < 0

\* if self.time_remaining[color] <= 0
Exhausted(clock) == clock <= 0

\* _is_game_finished, "self.max_moves and total_moves >= self.max_moves"
\* the proposers handed out the wrong way round
GetCurrentPlayerSwapped(b) == IF b.turn THEN "black_player" ELSE "white_player"

\* GameController._get_current_player
GetCurrentPlayer(b) == IF b.turn THEN "white_player" ELSE "black_player"

\* the move limit tested one move late
MaxMovesReachedLate(mm, stats) == mm # 0 /\ stats.total_moves > mm

MaxMovesReached(mm, stats) == mm # 0 /\ stats.total_moves >= mm

(***************************************************************************)
(* State                                                                   *)
(***************************************************************************)
VARIABLES
    time_control,   \* GameController.time_control (0: None)
    max_moves,      \* GameController.max_moves (0: None)
    board,          \* ChessGame.board
    move_history,   \* ChessGame.move_history
    time_remaining, \* GameController.time_remaining
    move_times,     \* GameController.move_times
    game_stats,     \* GameController.game_stats
    pc,             \* where play_game is
    color,          \* play_game: color of the turn
    legal_moves,    \* _get_next_move: legal_moves of the turn
    attempt,        \* get_next_move: the loop variable i
    elapsed,        \* get_next_move: time.time() - start_time
    attemptLog,     \* history: how long each API call of the proposer call
                    \* being made or awaiting its charge took
    move_result,    \* _get_next_move: the ChessMove the proposer returned
    san_move,       \* _get_next_move: the move as the proposer wrote it
    move,           \* play_game: what _get_next_move returned
    outcome,        \* play_game: "running", "returned" or "raised"
    pgn,            \* play_game: the returned text, <<>> while there is none
    error,          \* get_next_move: how the last failed API call failed
    rendered,       \* a caller's export_game() after play_game: <<>> or <<r>>
    writes,         \* history: assignments made to game_stats["termination"]
    turns,          \* history: turns started
    calls,          \* history: calls of player.get_next_move
    turnStart,      \* history: the state the current turn started in
    chargeLog,      \* history: per side, the thinking times charged to its clock
    current_player, \* play_game / play_single_move: the proposer of the turn
    session,        \* the st.session_state flags of ui/app.py, or NoSession
    call            \* the last make_move call made on the ChessGame directly

vars == <<time_control, max_moves, board, move_history, time_remaining,
          move_times, game_stats, pc, color, legal_moves, attempt, elapsed,
          move_result, san_move, move, outcome, pgn, error, rendered, writes,
          turns, calls, turnStart, chargeLog, current_player, session, call,
          attemptLog>>

config == <<time_control, max_moves>>

\* no Streamlit session: play_game or a test drives the objects
NoSession == [game_in_progress |-> FALSE, game_finished |-> FALSE,
              game_controller |-> FALSE]

\* no direct make_move call was made
NoCall == [uci |-> "", san |-> "", explanation |-> "", ok |-> FALSE,
           board |-> InitialBoard, move_history |-> <<>>]

\* what only a harness other than play_game changes
harness == <<session, call>>

\* what a turn may change, as a record
Snapshot ==
    [board          |-> board,
     move_history   |-> move_history,
     time_remaining |-> time_remaining,
     move_times     |-> move_times,
     game_stats     |-> game_stats]

NoMoveResult == [move |-> "", thinking_time |-> 0]

\* the fields of a GameController just constructed, and the history variables
Constructed ==
    /\ board = InitialBoard
    /\ move_history = <<>>
    /\ time_remaining = InitialClocks(time_control)
    /\ move_times = [c \in Colors |-> <<>>]
    /\ game_stats = InitialStats
    /\ color = "white"
    /\ legal_moves = {}
    /\ attempt = 0
    /\ elapsed = 0
    /\ move_result = NoMoveResult
    /\ san_move = ""
    /\ move = "unset"
    /\ outcome = "running"
    /\ pgn = <<>>
    /\ error = "none"
    /\ rendered = <<>>
    /\ writes = <<>>
    /\ turns = 0
    /\ calls = 0
    /\ turnStart = [board |-> InitialBoard, move_history |-> <<>>,
                    time_remaining |-> InitialClocks(time_control),
                    move_times |-> [c \in Colors |-> <<>>],
                    game_stats |-> InitialStats]
    /\ chargeLog = [c \in Colors |-> <<>>]
    /\ current_player = ""
    /\ attemptLog = <<>>

\* GameController.__init__ and the entry of play_game
Init ==
    /\ time_control \in {0, MaxTimeControl}
    /\ max_moves \in 0..MaxMovesCfg
    /\ pc = "loop"
    /\ session = NoSession
    /\ call = NoCall
    /\ Constructed

(***************************************************************************)
(* play_game                                                               *)
(***************************************************************************)
\* the loop is left: game_stats, outcome and pgn become those of `exit`
Finish(exit) ==
    /\ game_stats' = exit.game_stats
    /\ outcome' = exit.outcome
    /\ pgn' = exit.pgn
    /\ pc' = "done"
    /\ UNCHANGED session

\* play_single_move ends the game shown, the controller's game being (b, h):
\* game_finished is set and export_game is called; when that raises the
\* except clause leaves session_state.pgn as it was
SingleMoveEnds(stats, b, h) ==
    LET ex == ExportGame(stats, b, h) IN
    /\ writes' = writes \o (IF stats.termination # game_stats.termination
                            THEN <<stats.termination>> ELSE <<>>)
    /\ game_stats' = stats
    /\ pgn' = IF ex.raised THEN pgn ELSE <<ex.text>>
    /\ session' = [session EXCEPT !.game_finished = TRUE]
    /\ pc' = "ui"
    /\ UNCHANGED outcome

\* _get_next_move returned None or False, leaving the game as (b, h):
\* in play_game lines 63-67, then line 72; in play_single_move lines 96-99
TurnFails(retval, stats, b, h) ==
    /\ move' = retval
    /\ IF session = NoSession
       THEN /\ writes' = writes
                         \o (IF stats.termination # game_stats.termination
                             THEN <<stats.termination>> ELSE <<>>)
                         \o <<ForfeitStats(stats, color).termination>>
            /\ Finish(ReturnExport(ForfeitStats(stats, color), b, h))
       ELSE SingleMoveEnds(stats, b, h)

\* _is_game_finished finds the game over: the termination is set, then
\* "self.game.result()" calls the string the property returned, a TypeError
\* that the except clause of play_game handles
GameOverExit ==
    /\ pc = "loop"
    /\ IsGameOver(board)
    /\ Finish(HandleException(
                [game_stats EXCEPT !.termination = "Normal chess ending"],
                "Error: 'str' object is not callable", board, move_history))
    /\ writes' = writes \o <<"Normal chess ending",
                              "Error: 'str' object is not callable">>
    /\ UNCHANGED <<config, attemptLog, call, current_player, board, move_history,
                   time_remaining, move_times, color, legal_moves, attempt,
                   elapsed, move_result, san_move, move, error, rendered,
                   turns, calls, turnStart, chargeLog>>

\* _is_game_finished finds the move limit reached: the termination is set and
\* the loop ends
MaxMovesExit ==
    /\ pc = "loop"
    /\ ~IsGameOver(board)
    /\ MaxMovesReached(max_moves, game_stats)
    /\ Finish(ReturnExport(
                [game_stats EXCEPT !.termination = "Maximum moves reached"],
                board, move_history))
    /\ writes' = writes \o <<"Maximum moves reached", "Error: 'result'">>
    /\ UNCHANGED <<config, attemptLog, call, current_player, board, move_history,
                   time_remaining, move_times, color, legal_moves, attempt,
                   elapsed, move_result, san_move, move, error, rendered,
                   turns, calls, turnStart, chargeLog>>

\* a turn starts: play_game lines 56-59 and _get_next_move lines 83-87
StartTurn ==
    /\ pc = "loop"
    /\ ~IsGameOver(board)
    /\ ~MaxMovesReached(max_moves, game_stats)
    /\ current_player' = GetCurrentPlayer(board)
    /\ color' = IF board.turn THEN "white" ELSE "black"
    /\ legal_moves' = LegalSan(board)
    /\ turns' = turns + 1
    /\ turnStart' = Snapshot
    \* the locals of this call of _get_next_move are not bound yet
    /\ move_result' = NoMoveResult
    /\ san_move' = ""
    /\ pc' = "call"
    /\ UNCHANGED <<config, attemptLog, harness, board, move_history, time_remaining,
                   move_times, game_stats, attempt, elapsed, move, outcome,
                   pgn, error, rendered, writes, calls, chargeLog>>

\* _get_next_move line 90 and get_next_move up to its loop
CallProposer ==
    /\ pc = "call"
    /\ calls' = calls + 1
    /\ attempt' = 1
    /\ elapsed' = 0
    /\ attemptLog' = <<>>
    /\ pc' = "llm"
    /\ UNCHANGED <<config, harness, current_player, board, move_history,
                   time_remaining, move_times, game_stats, color, legal_moves,
                   move_result, san_move, move, outcome, pgn, error, rendered,
                   writes, turns, turnStart, chargeLog>>

\* one iteration of the loop of get_next_move: the API call takes d and
\* ends as r
Attempt(r, d) ==
    /\ pc = "llm"
    /\ elapsed' = Elapsed(elapsed, d)
    \* when the call raises no thinking time is reported
    /\ attemptLog' = IF Raises(r) THEN <<>> ELSE Append(attemptLog, d)
    /\ error' = IF r \in Failures THEN r ELSE error
    /\ IF Raises(r)
       THEN \* the proposer raises; _get_next_move returns None (line 123)
            /\ TurnFails("None", game_stats, board, move_history)
            /\ UNCHANGED <<attempt, move_result>>
       ELSE IF ShouldRetry(r, legal_moves, attempt)
       THEN /\ attempt' = attempt + 1
            /\ UNCHANGED <<pc, move_result, move, game_stats, outcome, pgn,
                           writes, session>>
       ELSE /\ move_result' = [move |-> r, thinking_time |-> elapsed']
            /\ pc' = "charge"
            /\ UNCHANGED <<attempt, move, game_stats, outcome, pgn, writes,
                           session>>
    /\ UNCHANGED <<config, call, current_player, board, move_history,
                   time_remaining, move_times, color, legal_moves, san_move,
                   rendered, turns, calls, turnStart, chargeLog>>

\* _get_next_move lines 96-101: the clock of the side to move is charged
ChargeClock ==
    /\ pc = "charge"
    /\ attemptLog' = <<>>
    /\ IF Timed(time_remaining)
       THEN LET after == ChargeSide(time_remaining, color,
                                    move_result.thinking_time)
                left  == after[color]
            IN
            /\ time_remaining' = after
            /\ chargeLog' = [chargeLog EXCEPT
                               ![color] = Append(@, move_result.thinking_time)]
            /\ IF Exhausted(left)
               THEN TurnFails("None",
                        [game_stats EXCEPT !.termination = LostOnTime(color)],
                        board, move_history)
               ELSE /\ pc' = "convert"
                    /\ UNCHANGED <<move, game_stats, outcome, pgn, writes,
                                   session>>
       ELSE /\ pc' = "convert"
            /\ UNCHANGED <<time_remaining, chargeLog, move, game_stats,
                           outcome, pgn, writes, session>>
    /\ UNCHANGED <<config, call, current_player, board, move_history,
                   move_times, color, legal_moves, attempt, elapsed,
                   move_result, san_move, error, rendered, turns, calls,
                   turnStart>>

\* _get_next_move lines 103-119: the move is converted to UCI and made
ApplyMove ==
    /\ pc = "convert"
    /\ san_move' = move_result.move
    /\ LET parsed == ParseSan(board, move_result.move)
           made   == MakeMove(board, move_history, Uci(parsed.move),
                              move_result.move, "explanation")
       IN  IF ~parsed.ok
           THEN \* ValueError: "Invalid move format", return None
                /\ UNCHANGED <<board, move_history, move_result>>
                /\ TurnFails("None", game_stats, board, move_history)
           ELSE /\ move_result' = [move_result EXCEPT !.move = Uci(parsed.move)]
                /\ board' = made.board
                /\ move_history' = made.move_history
                /\ IF made.ok
                   THEN /\ move' = "ChessMove"
                        \* play_game goes on to line 70; play_single_move
                        \* returns True and the script is run again
                        /\ pc' = IF session = NoSession THEN "stats" ELSE "ui"
                        /\ UNCHANGED <<game_stats, outcome, pgn, writes,
                                       session>>
                   ELSE TurnFails("False", game_stats, made.board,
                                  made.move_history)
    /\ UNCHANGED <<config, attemptLog, call, current_player, time_remaining, move_times,
                   color, legal_moves, attempt, elapsed, error, rendered,
                   turns, calls, turnStart, chargeLog>>

\* play_game line 70
UpdateStatsStep ==
    /\ pc = "stats"
    /\ LET upd == UpdateStats(game_stats, move_times,
                              move_result.thinking_time, color)
       IN  /\ game_stats' = upd.game_stats
           /\ move_times' = upd.move_times
    /\ pc' = "loop"
    \* the locals of get_next_move are gone
    /\ attempt' = 0
    /\ elapsed' = 0
    /\ UNCHANGED <<config, attemptLog, harness, current_player, board, move_history,
                   time_remaining, color, legal_moves, move_result, san_move,
                   move, outcome, pgn, error, rendered, writes, turns, calls,
                   turnStart, chargeLog>>

\* play_game is over and its caller calls export_game() once more
ExportAgain ==
    /\ pc = "done"
    /\ rendered = <<>>
    /\ rendered' = <<ExportGame(game_stats, board, move_history)>>
    /\ LET left == ExportLeaves([game_stats   |-> game_stats,
                                 board        |-> board,
                                 move_history |-> move_history])
       IN  /\ game_stats' = left.game_stats
           /\ board' = left.board
           /\ move_history' = left.move_history
    /\ UNCHANGED <<config, attemptLog, harness, current_player, time_remaining,
                   move_times, pc, color, legal_moves, attempt, elapsed,
                   move_result, san_move, move, outcome, pgn, error, writes,
                   turns, calls, turnStart, chargeLog>>

Next ==
    \/ GameOverExit
    \/ MaxMovesExit
    \/ StartTurn
    \/ CallProposer
    \/ \E r \in Responses, d \in Durations : Attempt(r, d)
    \/ ChargeClock
    \/ ApplyMove
    \/ UpdateStatsStep
    \/ ExportAgain

Spec == Init /\ [][Next]_vars

(***************************************************************************)
(* The presentation layer (ui/app.py): the script is run once per user     *)
(* event and once per move made; pc = "ui" is the start of a run           *)
(***************************************************************************)
\* "Start New Game" was pressed: both number inputs have a positive minimum,
\* so the match is timed and has a move limit
InitUI ==
    /\ time_control = MaxTimeControl
    /\ max_moves \in 1..MaxMovesCfg
    /\ pc = "ui"
    /\ session = [game_in_progress |-> TRUE, game_finished |-> FALSE,
                  game_controller |-> TRUE]
    /\ call = NoCall
    /\ Constructed

\* main line 183 and play_single_move line 79
Playing ==
    /\ pc = "ui"
    /\ session.game_controller
    /\ session.game_in_progress
    /\ ~session.game_finished

\* play_single_move lines 82-89: the game is over
UIGameOver ==
    /\ Playing
    /\ IsGameOver(board)
    /\ current_player' = GetCurrentPlayer(board)
    /\ color' = IF board.turn THEN "white" ELSE "black"
    /\ SingleMoveEnds(game_stats, board, move_history)
    /\ UNCHANGED <<config, attemptLog, call, board, move_history, time_remaining,
                   move_times, legal_moves, attempt, elapsed, move_result,
                   san_move, move, error, rendered, turns, calls, turnStart,
                   chargeLog>>

\* play_single_move lines 82-92 and _get_next_move lines 83-87
UIStartTurn ==
    /\ Playing
    /\ ~IsGameOver(board)
    /\ current_player' = GetCurrentPlayer(board)
    /\ color' = IF board.turn THEN "white" ELSE "black"
    /\ legal_moves' = LegalSan(board)
    /\ turns' = turns + 1
    /\ turnStart' = Snapshot
    /\ move_result' = NoMoveResult
    /\ san_move' = ""
    /\ pc' = "call"
    /\ UNCHANGED <<config, attemptLog, harness, board, move_history, time_remaining,
                   move_times, game_stats, attempt, elapsed, move, outcome,
                   pgn, error, rendered, writes, calls, chargeLog>>

\* only the session flags change
SessionBecomes(new) ==
    /\ session' = new
    /\ UNCHANGED <<config, attemptLog, call, current_player, board, move_history,
                   time_remaining, move_times, game_stats, pc, color,
                   legal_moves, attempt, elapsed, move_result, san_move, move,
                   outcome, error, rendered, writes, turns, calls, turnStart,
                   chargeLog>>

\* main lines 165-167: "Stop Game"
UIStop ==
    /\ Playing
    /\ SessionBecomes([session EXCEPT !.game_in_progress = FALSE])
    /\ UNCHANGED pgn

\* main lines 168-170: "Continue Game"
UIContinue ==
    /\ pc = "ui"
    /\ session.game_controller
    /\ ~session.game_in_progress
    /\ ~session.game_finished
    /\ SessionBecomes([session EXCEPT !.game_in_progress = TRUE])
    /\ UNCHANGED pgn

\* main lines 173-180: "Reset Game" drops the controller and the game
UIReset ==
    /\ pc = "ui"
    /\ session.game_controller
    /\ SessionBecomes([game_in_progress |-> FALSE, game_finished |-> FALSE,
                       game_controller |-> FALSE])
    /\ pgn' = <<>>

NextUI ==
    \/ UIGameOver
    \/ UIStartTurn
    \/ CallProposer
    \/ \E r \in Responses, d \in Durations : Attempt(r, d)
    \/ ChargeClock
    \/ ApplyMove
    \/ UIStop
    \/ UIContinue
    \/ UIReset

SpecUI == InitUI /\ [][NextUI]_vars

(***************************************************************************)
(* A ChessGame driven directly, as test_game.py drives it                  *)
(***************************************************************************)
\* the move_uci arguments: the moves the engine knows, the null move and a
\* string from_uci rejects
UciArgs == {Uci(m) : m \in RealMoves} \cup {"0000", "zz"}

SanArgs == {"Nf3", "Qh4#"}

ExplanationArgs == {"", "explanation"}

\* ChessGame("Player1", "Player2")
InitGame ==
    /\ time_control = 0
    /\ max_moves = 0
    /\ pc = "game"
    /\ session = NoSession
    /\ call = NoCall
    /\ Constructed

\* game.make_move(u, sn, ex)
MakeMoveCall(u, sn, ex) ==
    /\ pc = "game"
    /\ LET made == MakeMove(board, move_history, u, sn, ex) IN
        /\ board' = made.board
        /\ move_history' = made.move_history
        /\ call' = [uci |-> u, san |-> sn, explanation |-> ex,
                    ok |-> made.ok, board |-> board,
                    move_history |-> move_history]
    /\ UNCHANGED <<config, attemptLog, session, current_player, time_remaining,
                   move_times, game_stats, pc, color, legal_moves, attempt,
                   elapsed, move_result, san_move, move, outcome, pgn, error,
                   rendered, writes, turns, calls, turnStart, chargeLog>>

NextGame ==
    \E u \in UciArgs, sn \in SanArgs, ex \in ExplanationArgs :
        MakeMoveCall(u, sn, ex)

SpecGame == InitGame /\ [][NextGame]_vars

(***************************************************************************)
(* Vocabulary of the properties                                            *)
(***************************************************************************)
\* a turn has started and the legality of its move is not yet confirmed
TurnOpen == pc \in {"call", "llm", "charge", "convert"}

\* the match ended because the last turn produced no move
TurnFailed == pc = "done" /\ move \in {"None", "False"}

\* the last turn started has ended, with a move made or without
TurnResolved == pc = "stats" \/ TurnFailed

\* the move string the proposer returned in the current turn ("" if none)
Proposed == IF san_move # "" THEN san_move ELSE move_result.move

\* the current turn changed the position or the move records
Applied == board # turnStart.board \/ move_history # turnStart.move_history

\* play_game is at a turn boundary or has ended
AtBoundary == pc \in {"loop", "done"}

\* the clock of side c is at or below zero
OutOfTime(c) == time_remaining[c] <= 0

WinFor(c) == IF c = "white" THEN "1-0" ELSE "0-1"

\* the termination reason of a forfeited turn
InvalidMoveBy(c) == IF c = "white" THEN "Invalid move by white"
                    ELSE "Invalid move by black"

\* the side that is to move on board b, and the side that moved last
ToMove(b) == IF b.turn THEN "white" ELSE "black"

\* string s names no legal move of the position the current turn started in
IllegalHere(s) ==
    LET parsed == ParseSan(turnStart.board, s) IN
    ~(parsed.ok /\ parsed.move \in LegalMoves(turnStart.board))

\* the match ended by a forfeit of the side to move, and play_game returned
\* the transcript of the turns completed before
ForfeitReturned ==
    /\ TurnFailed
    /\ ~Applied
    /\ game_stats.result = WinFor(Other(color))
    /\ game_stats.termination = InvalidMoveBy(color)
    /\ outcome = "returned"
    /\ Len(pgn) = 1
    /\ pgn[1].result = WinFor(Other(color))
    /\ pgn[1].termination = InvalidMoveBy(color)
    /\ Len(pgn[1].pgn.moves) = Len(turnStart.move_history)

\* equality of two fractions
SameQuotient(p, q) == p.num * q.den = q.num * p.den

\* the arithmetic mean (0 of no samples) and the maximum (0 of no samples)
Mean(s) == IF s = <<>> THEN Quotient(0, 1) ELSE Quotient(Sum(s), Len(s))

Max(s) == IF s = <<>> THEN 0
          ELSE CHOOSE x \in {s[i] : i \in 1..Len(s)} :
                   \A j \in 1..Len(s) : s[j] <= x

\* the timing statistics of the controller
TimingStats(snap) ==
    <<snap.move_times, snap.game_stats.total_moves,
      snap.game_stats.average_time_per_move,
      snap.game_stats.longest_think_time>>

\* the number of plies among the first n that side c played
PliesOf(c, n) == IF c = "white" THEN (n + 1) \div 2 ELSE n \div 2

(***************************************************************************)
(* C1: however a match ends, play_game returns a transcript that carries   *)
(* the statistics block and a termination reason; it never lets an         *)
(* exception reach its caller.                                             *)
(* Fails: when the loop ends by the move limit or by a finished position,  *)
(* game_stats has no "result" key and export_game raises KeyError, also    *)
(* when the except clause calls it again.                                  *)
(***************************************************************************)
C1_AlwaysReturnsTranscript ==
    pc = "done" =>
        /\ outcome = "returned"
        /\ Len(pgn) = 1
        /\ pgn[1].termination # Absent

(***************************************************************************)
(* C5: in every finished match the Result header of the PGN and the Result *)
(* line of the statistics agree and fit the termination: a forfeit is a    *)
(* win of the other side, checkmate a win of the side that mated, every    *)
(* other ending a draw.                                                    *)
(* Fails: after a forfeit the statistics say 0-1 or 1-0 while the header,  *)
(* taken from ChessGame.result, says "*"; the other endings raise.         *)
(***************************************************************************)
C5_ResultConsistentWithTermination ==
    pc = "done" =>
        /\ outcome = "returned"
        /\ Len(pgn) = 1
        /\ pgn[1].pgn.result = pgn[1].result
        /\ TurnFailed => pgn[1].result = WinFor(Other(color))
        /\ (~TurnFailed /\ IsCheckmate(board)) =>
               pgn[1].result = (IF board.turn THEN "0-1" ELSE "1-0")
        /\ (~TurnFailed /\ ~IsCheckmate(board)) => pgn[1].result = "1/2-1/2"

(***************************************************************************)
(* C6: when the move limit is reached in a position that is not over, the  *)
(* match ends with the reason "Maximum moves reached" and a drawn result;  *)
(* with limit 1 the transcript shows exactly one move.                     *)
(* Fails: the limit branch of _is_game_finished sets no result, so         *)
(* export_game raises and no transcript is returned.                       *)
(***************************************************************************)
C6_MaxMovesIsDraw ==
    (pc = "done" /\ ~IsGameOver(board) /\ MaxMovesReached(max_moves, game_stats)) =>
        /\ outcome = "returned"
        /\ Len(pgn) = 1
        /\ pgn[1].termination = "Maximum moves reached"
        /\ pgn[1].result = "1/2-1/2"
        /\ Len(pgn[1].pgn.moves) = max_moves

(***************************************************************************)
(* C7: in a timed match, when the charge of a turn takes the mover's clock *)
(* to zero or below, the transcript reports the time forfeit of that side  *)
(* as the termination reason and the other side as the winner.             *)
(* Fails: _get_next_move sets "<color> lost on time" and returns None, and *)
(* play_game then overwrites the reason with "Invalid move by <color>".    *)
(***************************************************************************)
C7_TimeForfeitReported ==
    (pc = "done" /\ Timed(time_remaining) /\ OutOfTime(color)) =>
        /\ outcome = "returned"
        /\ Len(pgn) = 1
        /\ pgn[1].termination = LostOnTime(color)
        /\ pgn[1].result = WinFor(Other(color))

(***************************************************************************)
(* C2 as stated: in every turn the proposed move is applied if and only if *)
(* its string is in the legal-move list computed for that call; a move of  *)
(* the final attempt that is not in the list is never applied.             *)
(* Fails both ways: the final attempt's string is returned without the     *)
(* membership test and parse_san also accepts the fully specified form     *)
(* ("g1f3" for "Nf3"), and a listed move is not applied when its charge    *)
(* exhausts the clock.                                                     *)
(***************************************************************************)
C2_AppliedIffInLegalList ==
    TurnResolved => (Applied <=> Proposed \in legal_moves)

(***************************************************************************)
(* C2 amended: the proposed move is applied if and only if parse_san       *)
(* resolves its string to a legal move of the position and, in a timed     *)
(* match, the charge leaves the mover's clock above zero; what is applied  *)
(* is that legal move with the proposed string in its record; a string     *)
(* outside the legal-move list is applied only when it came from the final *)
(* attempt.                                                                *)
(***************************************************************************)
C2_AppliedIffLegalAfterParse ==
    TurnResolved =>
        LET parsed == ParseSan(turnStart.board, Proposed)
            legal  == /\ move_result # NoMoveResult
                      /\ parsed.ok
                      /\ parsed.move \in LegalMoves(turnStart.board)
            intime == Timed(time_remaining) => ~OutOfTime(color)
        IN  /\ Applied <=> (legal /\ intime)
            /\ Applied =>
                 /\ board = Push(turnStart.board, parsed.move)
                 /\ move_history = Append(turnStart.move_history,
                        <<Uci(parsed.move), Proposed, "explanation">>)
            /\ (Applied /\ Proposed \notin legal_moves) => attempt = Retries

\* a string outside the list was applied
C2_Witness ==
    /\ pc = "stats"
    /\ Applied
    /\ Proposed \notin legal_moves
    /\ attempt = Retries

(***************************************************************************)
(* C3: in every turn the number of attempts never exceeds retries (3), the *)
(* controller calls get_next_move exactly once per turn, and the position  *)
(* is unchanged after every attempt that did not yield a legal move.       *)
(***************************************************************************)
C3_RetryBound ==
    /\ attempt \in 0..Retries
    /\ pc = "llm" => attempt \in 1..Retries
    /\ calls = IF pc = "call" THEN turns - 1 ELSE turns
    /\ pc \in {"call", "llm", "charge"} =>
          (board = turnStart.board /\ move_history = turnStart.move_history)
    /\ TurnFailed =>
          (board = turnStart.board /\ move_history = turnStart.move_history)

\* a turn failed on its last attempt, after two retries
C3_Witness ==
    /\ TurnFailed
    /\ attempt = Retries
    /\ move_result # NoMoveResult
    /\ turns = 2

(***************************************************************************)
(* C4 as stated: within a turn none of position, move records, the mover's *)
(* clock and the timing statistics is changed before the move's legality   *)
(* is confirmed, and a turn that ends without an accepted move leaves all  *)
(* four as they were when it started.                                      *)
(* Fails: the clock is charged (line 98) before the move is parsed.        *)
(***************************************************************************)
C4_NothingChangesBeforeLegality ==
    (TurnOpen \/ TurnFailed) =>
        /\ board = turnStart.board
        /\ move_history = turnStart.move_history
        /\ time_remaining = turnStart.time_remaining
        /\ TimingStats(Snapshot) = TimingStats(turnStart)

(***************************************************************************)
(* C4 amended: within a turn position, move records and timing statistics  *)
(* are not changed before the move's legality is confirmed and a failed    *)
(* turn leaves them as they were; the mover's clock is charged with the    *)
(* reported thinking time before legality is checked, so after a failed    *)
(* turn of a timed match it is at or below its value at the start, and the *)
(* other side's clock is unchanged.                                        *)
(***************************************************************************)
C4_OnlyClockChangesBeforeLegality ==
    (TurnOpen \/ TurnFailed) =>
        /\ board = turnStart.board
        /\ move_history = turnStart.move_history
        /\ TimingStats(Snapshot) = TimingStats(turnStart)
        /\ Timed(time_remaining) =>
              /\ time_remaining[Other(color)] = turnStart.time_remaining[Other(color)]
              /\ time_remaining[color] <= turnStart.time_remaining[color]
              /\ pc \in {"call", "llm", "charge"} =>
                    time_remaining = turnStart.time_remaining

\* a turn failed on an unplayable move, after its clock was charged
C4_Witness ==
    /\ TurnFailed
    /\ Timed(time_remaining)
    /\ ~OutOfTime(color)
    /\ time_remaining[color] < turnStart.time_remaining[color]
    /\ Len(move_history) > 0

(***************************************************************************)
(* C8 as stated: in a timed match a legal move whose charge takes the      *)
(* mover's clock to zero or below is still applied to the position and     *)
(* appended to the move records before the match ends.                     *)
(* Fails: _get_next_move returns None at line 101, before the move is      *)
(* parsed and made.                                                        *)
(***************************************************************************)
C8_ExhaustingMoveIsApplied ==
    (/\ pc = "done"
     /\ Timed(time_remaining)
     /\ OutOfTime(color)
     /\ Proposed \in legal_moves) =>
        /\ board # turnStart.board
        /\ Len(move_history) = Len(turnStart.move_history) + 1

(***************************************************************************)
(* C8 amended: in a timed match a move whose charge takes the mover's      *)
(* clock to zero or below is not applied and not recorded: the match ends  *)
(* at once, with the position and the move records as they were when the   *)
(* turn started.                                                           *)
(***************************************************************************)
C8_ExhaustingMoveIsNotApplied ==
    (/\ pc # "loop"
     /\ Timed(time_remaining)
     /\ OutOfTime(color)) =>
        /\ pc = "done"
        /\ move = "None"
        /\ board = turnStart.board
        /\ move_history = turnStart.move_history

\* a listed move exhausted the clock of its side, in the second turn or later
C8_Witness ==
    /\ pc = "done"
    /\ Timed(time_remaining)
    /\ OutOfTime(color)
    /\ Proposed \in legal_moves
    /\ Len(move_history) > 0

(***************************************************************************)
(* C9: the clock of each side never increases from one step to the next,   *)
(* and once it is at or below zero it is not charged again and the         *)
(* proposer is not called again.                                           *)
(***************************************************************************)
C9_ClocksOnlyFall ==
    [][Timed(time_remaining) =>
         \A c \in Colors :
            /\ time_remaining'[c] <= time_remaining[c]
            /\ OutOfTime(c) =>
                  /\ time_remaining' = time_remaining
                  /\ calls' = calls
                  /\ chargeLog' = chargeLog]_vars

\* the clock of black is exhausted after white was charged too
C9_Witness ==
    /\ Timed(time_remaining)
    /\ OutOfTime("black")
    /\ time_remaining["white"] < time_control

(***************************************************************************)
(* C10 as stated: at every turn boundary and at the end of a timed match,  *)
(* for each side, the average is the mean and the longest think time the   *)
(* maximum of all thinking times charged to that side so far, that of a    *)
(* turn ending in a forfeit included.                                      *)
(* Fails: _update_stats runs only after an accepted move, so the sample    *)
(* charged in a forfeited turn never enters the statistics.                *)
(***************************************************************************)
C10_StatsOfChargedSamples ==
    (AtBoundary /\ Timed(time_remaining)) =>
        \A c \in Colors :
            /\ SameQuotient(game_stats.average_time_per_move[c], Mean(chargeLog[c]))
            /\ game_stats.longest_think_time[c] = Max(chargeLog[c])

(***************************************************************************)
(* C10 amended: at every turn boundary and at the end of a match, for each *)
(* side, the average is the mean and the longest think time the maximum of *)
(* the thinking times of that side's accepted moves, one sample per move   *)
(* that side played; the sample charged in a turn that ends in a forfeit   *)
(* is not part of the statistics.                                          *)
(***************************************************************************)
C10_StatsOfAcceptedSamples ==
    AtBoundary =>
        \A c \in Colors :
            /\ SameQuotient(game_stats.average_time_per_move[c], Mean(move_times[c]))
            /\ game_stats.longest_think_time[c] = Max(move_times[c])
            /\ Len(move_times[c]) = PliesOf(c, Len(move_history))
            /\ Timed(time_remaining) =>
                  \/ chargeLog[c] = move_times[c]
                  \/ /\ TurnFailed
                     /\ c = color
                     /\ chargeLog[c] = Append(move_times[c], move_result.thinking_time)

\* a forfeited turn was charged to a side that has samples already
C10_Witness ==
    /\ TurnFailed
    /\ Timed(time_remaining)
    /\ move_times[color] # <<>>
    /\ chargeLog[color] # move_times[color]
    /\ Max(chargeLog[color]) > Max(move_times[color])

C12_ThreeIllegalMovesForfeit ==
    (attempt = Retries /\ move_result # NoMoveResult /\ IllegalHere(Proposed)) =>
        /\ pc \in {"charge", "convert", "done"}
        /\ ~Applied
        /\ pc = "done" =>
              /\ ForfeitReturned
              /\ color = ToMove(board)
              /\ pgn[1].result = (IF board.turn THEN "0-1" ELSE "1-0")

\* black forfeited by a third illegal answer
C12_Witness ==
    /\ pc = "done"
    /\ attempt = Retries
    /\ move_result # NoMoveResult
    /\ IllegalHere(Proposed)
    /\ color = "black"
    /\ pgn = <<[pgn[1] EXCEPT !.result = "1-0"]>>

(***************************************************************************)
(* C13 as stated: when the answers of attempts 1..k-1 are not in the       *)
(* legal-move list and that of attempt k (k <= 3) is, the turn succeeds:   *)
(* exactly that move is applied and recorded, no attempt follows attempt   *)
(* k, and the match goes on.                                               *)
(* Fails in a timed match: the thinking time of the k attempts together is *)
(* charged first, and when it exhausts the clock the listed move is not    *)
(* applied and the side to move forfeits.                                  *)
(***************************************************************************)
C13_ListedMoveSucceeds ==
    (TurnResolved /\ move_result # NoMoveResult /\ Proposed \in legal_moves) =>
        /\ pc = "stats"
        /\ Applied

(***************************************************************************)
(* C13 amended: when the answers of attempts 1..k-1 are not in the         *)
(* legal-move list and that of attempt k (k <= 3) is, and in a timed match *)
(* the thinking time charged for the turn leaves the mover's clock above   *)
(* zero, the turn succeeds: exactly that move is applied and recorded, no  *)
(* attempt follows attempt k, and the match goes on.                       *)
(***************************************************************************)
C13_ListedMoveSucceedsInTime ==
    /\ [](  (/\ TurnResolved
             /\ move_result # NoMoveResult
             /\ Proposed \in legal_moves
             /\ Timed(time_remaining) => ~OutOfTime(color))
          =>
            LET m == CHOOSE x \in LegalMoves(turnStart.board) :
                         San(x) = Proposed
            IN  /\ pc = "stats"
                /\ move = "ChessMove"
                /\ board = Push(turnStart.board, m)
                /\ move_history = Append(turnStart.move_history,
                                         <<Uci(m), Proposed, "explanation">>)
                /\ attempt \in 1..Retries
                /\ calls = turns
                /\ outcome = "running"
                /\ game_stats.termination = Absent)
    /\ [][(pc \in {"charge", "convert", "stats"}) =>
              (calls' = calls /\ attempt' \in {attempt, 0})]_vars

\* two unlisted answers, then a listed one that was applied, in a timed match
C13_Witness ==
    /\ pc = "stats"
    /\ attempt = Retries
    /\ Proposed \in legal_moves
    /\ Timed(time_remaining)
    /\ move_result.thinking_time > 0
    /\ Len(move_history) = Len(turnStart.move_history) + 1

(***************************************************************************)
(* C14 as stated: a malformed answer (not JSON, or a required key found    *)
(* missing) on an attempt before the last is retried, and the turn is      *)
(* forfeited for a malformed answer only when the attempts are exhausted.  *)
(* Fails: the inner except clause raises ValueError, which the outer one   *)
(* turns into the Exception that ends get_next_move, on any attempt.       *)
(***************************************************************************)
C14_MalformedIsRetried ==
    (pc = "done" /\ error = "malformed") => attempt = Retries

(***************************************************************************)
(* C14 amended: a malformed answer is not retried: on whatever attempt it  *)
(* arrives, get_next_move raises, no further attempt is made, no move is   *)
(* applied, the side to move forfeits and the transcript is returned.      *)
(***************************************************************************)
C14_MalformedForfeitsAtOnce ==
    error = "malformed" =>
        /\ ForfeitReturned
        /\ move = "None"
        /\ move_result = NoMoveResult
        /\ attempt \in 1..Retries

\* the first answer of a turn was malformed
C14_Witness ==
    /\ pc = "done"
    /\ error = "malformed"
    /\ attempt = 1
    /\ turns = 2

(***************************************************************************)
(* C15: a transport failure of the API call is not retried: the first call *)
(* that fails ends the turn, no move is applied, the side to move forfeits *)
(* (the other side is recorded as the winner) and the match ends with a    *)
(* returned transcript.                                                    *)
(***************************************************************************)
C15_TransportFailureForfeits ==
    error = "transport" =>
        /\ pc = "done"
        /\ move = "None"
        /\ board = turnStart.board
        /\ move_history = turnStart.move_history
        /\ game_stats.result = (IF color = "white" THEN "0-1" ELSE "1-0")
        /\ outcome = "returned"
        /\ pgn # <<>>
        /\ pgn[1].result = game_stats.result
        /\ pgn[1].termination # Absent
        /\ Len(pgn[1].pgn.moves) = Len(move_history)

\* the API call failed on black's first attempt, after white's move
C15_Witness ==
    /\ error = "transport"
    /\ outcome = "returned"
    /\ color = "black"
    /\ attempt = 1
    /\ Len(move_history) = 1

(***************************************************************************)
(* C16: when an applied move gives checkmate, the match ends with the      *)
(* normal-ending reason, the winner is the side that made the move, and no *)
(* further call of the proposer is made.                                   *)
(* Fails: _is_game_finished sets "Normal chess ending" and then calls the  *)
(* string that the property ChessGame.result returned; the TypeError is    *)
(* handled by overwriting the reason, no result is stored, and export_game *)
(* raises KeyError out of play_game.                                       *)
(***************************************************************************)
C16_CheckmateEndsNormally ==
    (pc = "done" /\ IsCheckmate(board)) =>
        /\ calls = turns
        /\ outcome = "returned"
        /\ Len(pgn) = 1
        /\ pgn[1].termination = "Normal chess ending"
        /\ pgn[1].result = WinFor(Other(ToMove(board)))

(***************************************************************************)
(* C17: a failure in the resolution of a turn that is none of illegal      *)
(* move, malformed answer, transport failure and time exhaustion ends the  *)
(* match as aborted, not as a forfeit of the side to move, and the         *)
(* transcript of the turns completed so far is returned.                   *)
(* Fails: _get_next_move catches every Exception and returns None, which   *)
(* play_game records as "Invalid move by <color>" with the other side as   *)
(* the winner; the except clause of play_game, reached by failures outside *)
(* _get_next_move, stores no result, so its export_game raises (C1).       *)
(***************************************************************************)
C17_InternalFailureAborts ==
    (pc = "done" /\ error = "internal") =>
        /\ outcome = "returned"
        /\ Len(pgn) = 1
        /\ pgn[1].termination # InvalidMoveBy(color)
        /\ pgn[1].result \notin {"0-1", "1-0"}
        /\ Len(pgn[1].pgn.moves) = Len(move_history)

(***************************************************************************)
(* C18: in a match without time control time_remaining stays None, so the  *)
(* proposer is always given None as its remaining time; no thinking time   *)
(* is ever charged and no turn, however long the proposer thinks, ends in  *)
(* a time forfeit.                                                         *)
(***************************************************************************)
C18_UntimedHasNoClock ==
    time_control = 0 =>
        /\ DOMAIN time_remaining = {}
        /\ chargeLog = [c \in Colors |-> <<>>]
        /\ \A i \in 1..Len(writes) :
               writes[i] \notin {"white lost on time", "black lost on time"}
        /\ TurnFailed => (move_result = NoMoveResult \/ IllegalHere(Proposed))

\* an untimed match in which a long-thought move was applied
C18_Witness ==
    /\ time_control = 0
    /\ pc = "stats"
    /\ turns = 2
    /\ move_result.thinking_time >= MaxAttemptTime + 1

(***************************************************************************)
(* C19: the result of the match is written once: the termination reason    *)
(* and the result in game_stats are set exactly once, when the loop ends,  *)
(* and never overwritten.                                                  *)
(* Fails: a time forfeit writes "<color> lost on time" and play_game       *)
(* overwrites it with "Invalid move by <color>" (C7); the move limit and   *)
(* the normal ending write their reason and the except clause overwrites   *)
(* it with "Error: ..." (C1).                                              *)
(***************************************************************************)
C19_ResultWrittenOnce ==
    /\ Len(writes) <= 1
    /\ game_stats.termination # Absent => writes = <<game_stats.termination>>

(***************************************************************************)
(* C20: a clock is changed only by subtracting the thinking time of a turn *)
(* from the entry of the side to move; every turn leaves the entry of the  *)
(* other side as it was.                                                   *)
(***************************************************************************)
C20_OnlyMoverIsCharged ==
    /\ [][time_remaining' # time_remaining =>
             /\ pc = "charge"
             /\ color = ToMove(board)
             /\ time_remaining' =
                    [time_remaining EXCEPT
                        ![color] = @ - move_result.thinking_time]]_vars
    /\ []((Timed(time_remaining) /\ turns > 0) =>
             time_remaining[Other(color)] =
                 turnStart.time_remaining[Other(color)])

\* black was charged and white's clock kept what white's own turn left
C20_Witness ==
    /\ Timed(time_remaining)
    /\ color = "black"
    /\ pc = "stats"
    /\ chargeLog["black"] # <<>>
    /\ move_result.thinking_time > 0
    /\ time_remaining["white"] = turnStart.time_remaining["white"]
    /\ time_remaining["black"] < turnStart.time_remaining["black"]

\* sequence s is an initial part of sequence t
IsPrefix(s, t) == Len(s) <= Len(t) /\ SubSeq(t, 1, Len(s)) = s

\* the move the string u names among the legal moves of b, if there is one
LegalUci(b, u) == {m \in LegalMoves(b) : Uci(m) = u}

(***************************************************************************)
(* C21: the move records are append-only: every operation leaves the       *)
(* earlier move_history as a prefix of the later one, so records are never *)
(* changed, removed or reordered; a make_move that succeeds appends just   *)
(* one record, that of its arguments, and one that fails appends none.     *)
(***************************************************************************)
C21_RecordsAreAppendOnly ==
    [][/\ IsPrefix(move_history, move_history')
       /\ call' # call =>
             IF call'.ok
             THEN move_history' =
                      Append(move_history,
                             <<call'.uci, call'.san, call'.explanation>>)
             ELSE move_history' = move_history]_vars

\* a third record was appended behind two that stayed
C21_Witness ==
    /\ call.ok
    /\ Len(call.move_history) = 2
    /\ Len(move_history) = 3
    /\ SubSeq(move_history, 1, 2) = call.move_history

(***************************************************************************)
(* C23: make_move returns True exactly when its UCI string names a legal   *)
(* move of the position; then the board is advanced by that move and one   *)
(* record is appended. For a string that names an illegal move or cannot   *)
(* be parsed it returns False and leaves board and move history unchanged. *)
(***************************************************************************)
C23_MakeMoveIffLegal ==
    call # NoCall =>
        /\ call.ok <=> LegalUci(call.board, call.uci) # {}
        /\ call.ok =>
              /\ \E m \in LegalUci(call.board, call.uci) :
                     board = Push(call.board, m)
              /\ move_history =
                     Append(call.move_history,
                            <<call.uci, call.san, call.explanation>>)
        /\ ~call.ok =>
              /\ board = call.board
              /\ move_history = call.move_history

\* a well-formed move that is illegal in the initial position was refused
C23_Witness ==
    /\ call.uci = "d8h4"
    /\ ~call.ok
    /\ call.board = InitialBoard
    /\ board = InitialBoard
    /\ move_history = <<>>

(***************************************************************************)
(* C24: ChessGame.result is "*" exactly when the position is not terminal; *)
(* at checkmate it is "1-0" when black is to move and "0-1" when white is; *)
(* in every other terminal position it is "1/2-1/2". A game just created   *)
(* is not over, has result "*" and has player1 as its current player.      *)
(***************************************************************************)
C24_ResultOfPosition ==
    /\ Result(board) = "*" <=> ~IsGameOver(board)
    /\ IsCheckmate(board) =>
          Result(board) = (IF board.turn THEN "0-1" ELSE "1-0")
    /\ (IsGameOver(board) /\ ~IsCheckmate(board)) => Result(board) = "1/2-1/2"
    /\ call = NoCall =>
          /\ ~IsGameOver(board)
          /\ Result(board) = "*"
          /\ CurrentPlayer(board) = "player1"

\* white has mated: black is to move in a checkmate position
C24_Witness ==
    /\ IsCheckmate(board)
    /\ ~board.turn
    /\ call.ok
    /\ call.uci = "d8h4"

(***************************************************************************)
(* C22: in the UI a stop or reset takes effect only between turns: while   *)
(* a turn is running the session stays installed, in progress and          *)
(* unfinished, and whenever the session is stopped, reset or finished the  *)
(* position and the move record agree -- the turn before it either         *)
(* pushed its move and recorded it, or changed neither.                    *)
(***************************************************************************)
C22_StopOnlyBetweenTurns ==
    /\ TurnOpen =>
          /\ session.game_controller
          /\ session.game_in_progress
          /\ ~session.game_finished
    /\ ~TurnOpen => pc = "ui"
    /\ pc = "ui" =>
          /\ board.ply = Len(move_history)
          /\ \/ /\ board = turnStart.board
                /\ move_history = turnStart.move_history
             \/ /\ Len(move_history) = Len(turnStart.move_history) + 1
                /\ board.ply = turnStart.board.ply + 1
                /\ IsPrefix(turnStart.move_history, move_history)

\* the UI was stopped after a turn that made its move
C22_Witness ==
    /\ pc = "ui"
    /\ session.game_controller
    /\ ~session.game_in_progress
    /\ ~session.game_finished
    /\ Len(move_history) = 1
    /\ board.ply = 1

(***************************************************************************)
(* C25: in every turn of play_game the active side is the side to move of  *)
(* the position the turn started in; the proposer asked is that side's,    *)
(* only that side's clock and timing statistics change during the turn,    *)
(* a forfeit of the turn is that side's loss, and the n-th turn is         *)
(* white's exactly when n is odd.                                          *)
(***************************************************************************)
C25_ActiveSideUsedConsistently ==
    turns > 0 =>
       /\ color = ToMove(turnStart.board)
       /\ current_player = (IF color = "white" THEN "white_player"
                            ELSE "black_player")
       /\ color = (IF turns % 2 = 1 THEN "white" ELSE "black")
       /\ Timed(time_remaining) =>
             time_remaining[Other(color)] = turnStart.time_remaining[Other(color)]
       /\ (TurnOpen \/ TurnResolved) =>
             /\ move_times[Other(color)] = turnStart.move_times[Other(color)]
             /\ move_times[color] = turnStart.move_times[color]
       /\ pc = "loop" =>
             /\ move_times[Other(color)] = turnStart.move_times[Other(color)]
             /\ Len(move_times[color]) = Len(turnStart.move_times[color]) + 1
             /\ game_stats.average_time_per_move[Other(color)]
                   = turnStart.game_stats.average_time_per_move[Other(color)]
             /\ game_stats.longest_think_time[Other(color)]
                   = turnStart.game_stats.longest_think_time[Other(color)]
             /\ \A c \in Colors :
                   Len(move_times[c]) = PliesOf(c, Len(move_history))
       /\ TurnFailed =>
             /\ game_stats.result = WinFor(Other(color))
             /\ game_stats.termination = InvalidMoveBy(color)

\* black's turn was charged to black's clock and went on to its move
C25_Witness ==
    /\ pc = "stats"
    /\ color = "black"
    /\ current_player = "black_player"
    /\ Timed(time_remaining)
    /\ time_remaining["black"] < turnStart.time_remaining["black"]

(***************************************************************************)
(* C26: with a move limit N >= 1, play_game tests before every turn first  *)
(* whether the position is terminal and then whether N moves have been     *)
(* played: never more than N moves are applied, a turn (and its proposer   *)
(* call) starts only from a position that is not terminal with fewer than  *)
(* N moves played, and when the loop ends on a position that is both       *)
(* terminal and at the limit, the reason first set is the rules' one.      *)
(***************************************************************************)
C26_MoveLimitEnforced ==
    max_moves >= 1 =>
       /\ Len(move_history) <= max_moves
       /\ board.ply <= max_moves
       /\ calls <= max_moves
       /\ (TurnOpen \/ TurnResolved) =>
             /\ ~IsGameOver(turnStart.board)
             /\ Len(turnStart.move_history) < max_moves
       /\ (pc = "done" /\ ~TurnFailed) =>
             /\ Len(writes) >= 1
             /\ writes[1] = (IF IsGameOver(board) THEN "Normal chess ending"
                             ELSE "Maximum moves reached")
             /\ ~IsGameOver(board) => Len(move_history) = max_moves

\* the loop ended on a position that is terminal with the limit reached too
C26_Witness ==
    /\ pc = "done"
    /\ ~TurnFailed
    /\ max_moves >= 1
    /\ IsGameOver(board)
    /\ Len(move_history) = max_moves

\* the loop ended on the move limit alone
C26_WitnessLimit ==
    /\ pc = "done"
    /\ ~TurnFailed
    /\ max_moves >= 1
    /\ ~IsGameOver(board)
    /\ calls = max_moves

(***************************************************************************)
(* C27: at every turn boundary of play_game and at match end, total_moves  *)
(* equals the number of move records and the number of timing samples of   *)
(* both sides together, and white has as many samples as black or one      *)
(* more.                                                                   *)
(***************************************************************************)
C27_CountsAgree ==
    AtBoundary =>
       /\ game_stats.total_moves = Len(move_history)
       /\ game_stats.total_moves
             = Len(move_times["white"]) + Len(move_times["black"])
       /\ Len(move_times["white"]) - Len(move_times["black"]) \in {0, 1}

\* a turn boundary after white's second move
C27_Witness ==
    /\ pc = "loop"
    /\ game_stats.total_moves = 3
    /\ Len(move_times["white"]) = 2
    /\ Len(move_times["black"]) = 1

(***************************************************************************)
(* C28: a match driven turn by turn through play_single_move keeps what    *)
(* play_game keeps: between turns total_moves and the timing samples       *)
(* count the moves made, no more moves are made than the move limit        *)
(* allows, and once the match is finished its transcript is stored.        *)
(***************************************************************************)
C28_SingleMoveMatchesPlayGame ==
    (pc = "ui" /\ session.game_controller) =>
       /\ game_stats.total_moves = Len(move_history)
       /\ Len(move_times["white"]) + Len(move_times["black"])
             = Len(move_history)
       /\ Len(move_history) <= max_moves
       /\ session.game_finished => pgn # <<>>

(***************************************************************************)
(* C29: the thinking time a proposer reports for a turn is the time taken  *)
(* by all attempts of the turn together, so it is no less than any single  *)
(* attempt took and no less than what was measured before the last retry;  *)
(* that total is what the clock of the side to move is charged.            *)
(***************************************************************************)
C29_ThinkingTimeIsCumulative ==
    /\ pc = "llm" =>
          /\ Len(attemptLog) = attempt - 1
          /\ elapsed = Sum(attemptLog)
    /\ pc = "charge" =>
          /\ Len(attemptLog) = attempt
          /\ move_result.thinking_time = Sum(attemptLog)
          /\ \A i \in 1..Len(attemptLog) :
                move_result.thinking_time >= attemptLog[i]
          /\ \A i \in 1..Len(attemptLog) :
                move_result.thinking_time >= Sum(SubSeq(attemptLog, 1, i))
    /\ (pc \in {"convert", "stats"} \/ (TurnFailed /\ error = "")) =>
          (Timed(time_remaining) =>
              /\ Len(chargeLog[color]) >= 1
              /\ chargeLog[color][Len(chargeLog[color])]
                    = move_result.thinking_time
              /\ time_remaining[color]
                    = turnStart.time_remaining[color] - move_result.thinking_time)

\* a move accepted at the third attempt, the first attempt alone having
\* taken as long as the third
C29_Witness ==
    /\ pc = "charge"
    /\ attempt = 3
    /\ attemptLog = <<1, 0, 1>>
    /\ move_result.thinking_time = 2

=============================================================================
